---------------------------- MODULE Spec2Model ----------------------------
(***************************************************************************)
(* Model of src/app.py: the tool-dispatching chat backend (run_agent, the  *)
(* two tools duckduckgo_search_tool and fetch_url_tool, chunk_reply and    *)
(* the /chat and /chat/stream endpoints).                                  *)
(*                                                                         *)
(* Representation.                                                         *)
(*  - A Python str is a sequence of items; an item is one whitespace       *)
(*    character (a member of Whitespace) or a run of one or more           *)
(*    non-whitespace characters written as one TLA+ string.  No operation  *)
(*    of the program that is modelled here looks inside such a run.        *)
(*  - An Optional value (X | None) is a sequence of length at most one:    *)
(*    None is << >> and a present value x is << x >>, so that the empty    *)
(*    string and the empty list are different from None.                   *)
(*  - A parsed HTML document is the sequence of its elements in document   *)
(*    order; every element has a tag, the attributes the selectors and the *)
(*    claims read, and its text content.                                   *)
(***************************************************************************)
EXTENDS Integers, Sequences, FiniteSets, TLC

VARIABLES
    pc,         \* where the request being served is
    endpoint,   \* "chat" (/chat) or "stream" (/chat/stream)
    payload,    \* the ChatRequest
    upstream,   \* what the remote site answers when it is called
    history,    \* run_agent's history dict (the audit trail), None before it exists
    tool_out,   \* the value the tool returned to run_agent, None before
    response,   \* run_agent's ChatResponse, None before it is built
    status,     \* HTTP status of the answer: 0 while none
    net_calls,  \* outbound client.post / client.get calls of this request
    http_body,  \* body returned by /chat, None otherwise
    pending,    \* chunks event_generator still has to yield
    events,     \* stream events yielded so far
    chat_ref    \* the /chat answer to the same request, when it is replayed

vars == << pc, endpoint, payload, upstream, history, tool_out, response,
           status, net_calls, http_body, pending, events, chat_ref >>

----------------------------------------------------------------------------
(* Optional values *)

None == << >>

Some(x) == << x >>

IsNone(o) == o = << >>

Get(o) == o[1]

----------------------------------------------------------------------------
(* Strings *)

\* the characters str.split() and str.strip() treat as whitespace
Whitespace == {" ", "\t", "\n"}

IsSpace(c) == c \in Whitespace

Min(a, b) == IF a <= b THEN a ELSE b

\* text[:n]
Prefix(text, n) == SubSeq(text, 1, Min(n, Len(text)))

RECURSIVE LStrip(_)
LStrip(text) ==
    IF text = << >> THEN << >>
    ELSE IF IsSpace(Head(text)) THEN LStrip(Tail(text))
    ELSE text

RECURSIVE RStrip(_)
RStrip(text) ==
    IF text = << >> THEN << >>
    ELSE IF IsSpace(text[Len(text)]) THEN RStrip(SubSeq(text, 1, Len(text) - 1))
    ELSE text

\* str.strip()
Strip(text) == RStrip(LStrip(text))

\* str.split() with no argument: the maximal runs of non-whitespace
RECURSIVE SplitAcc(_, _, _)
SplitAcc(text, cur, acc) ==
    IF text = << >>
    THEN IF cur = << >> THEN acc ELSE Append(acc, cur)
    ELSE IF IsSpace(Head(text))
         THEN SplitAcc(Tail(text), << >>,
                       IF cur = << >> THEN acc ELSE Append(acc, cur))
         ELSE SplitAcc(Tail(text), Append(cur, Head(text)), acc)

Split(text) == SplitAcc(text, << >>, << >>)

\* " ".join(parts)
RECURSIVE JoinSpace(_)
JoinSpace(parts) ==
    IF parts = << >> THEN << >>
    ELSE IF Len(parts) = 1 THEN parts[1]
    ELSE parts[1] \o << " " >> \o JoinSpace(Tail(parts))

----------------------------------------------------------------------------
(* chunk_reply *)

\* the default of chunk_reply's words_per_chunk
WordsPerChunk == 6

\* the loop of chunk_reply over words, then the trailing `if current`
RECURSIVE ChunkLoop(_, _, _, _)
ChunkLoop(words, current, chunks, words_per_chunk) ==
    IF words = << >>
    THEN IF current # << >> THEN Append(chunks, JoinSpace(current)) ELSE chunks
    ELSE LET cur == Append(current, Head(words))
         IN  IF Len(cur) >= words_per_chunk
             THEN ChunkLoop(Tail(words), << >>,
                            Append(chunks, JoinSpace(cur)), words_per_chunk)
             ELSE ChunkLoop(Tail(words), cur, chunks, words_per_chunk)

\* a plausible slip: the trailing partial chunk is not flushed
chunk_reply_NoFlush(text) ==
    IF text = << >> THEN << << >> >>
    ELSE LET all == ChunkLoop(Split(text), << >>, << >>, WordsPerChunk)
             full == Len(Split(text)) \div WordsPerChunk
         IN  SubSeq(all, 1, full)

chunk_reply(text) ==
    IF text = << >> THEN << << >> >>
    ELSE ChunkLoop(Split(text), << >>, << >>, WordsPerChunk)

----------------------------------------------------------------------------
(* Parsed HTML *)

\* An element of a parsed document.  name, property: the attributes of that
\* name ("" when the element has none); content: the content attribute;
\* text: the text inside the element, as Tag.get_text() returns it.
El(tag, name, property, content, text) ==
    [tag |-> tag, name |-> name, property |-> property,
     content |-> content, text |-> text]

\* Tag.get_text(strip=True) of an element holding one text node
GetTextStrip(el) == Strip(el.text)

\* the CSS selectors fetch_url_tool passes to soup.select_one
Matches(el, selector) ==
    CASE selector = "title" -> el.tag = "title"
      [] selector = "meta[name=description]" ->
             el.tag = "meta" /\ el.name = "description"
      [] selector = "meta[property=og:description]" ->
             el.tag = "meta" /\ el.property = "og:description"
      [] OTHER -> FALSE

\* soup.select_one(selector): the first matching element in document order
SelectOne(doc, selector) ==
    LET hits == SelectSeq(doc, LAMBDA el : Matches(el, selector))
    IN  IF hits = << >> THEN None ELSE Some(hits[1])

\* soup.find_all(tags): every element with one of the tags, in document order
FindAll(doc, tags) == SelectSeq(doc, LAMBDA el : el.tag \in tags)

----------------------------------------------------------------------------
(* duckduckgo_search_tool: the parsing of the response *)

\* A div.result of the search response.  a: its first a.result__a (None when
\* it has none), with the href attribute and the text; snippet: the text of
\* its first a.result__snippet / div.result__snippet (None when it has none).
Candidate(a, snippet) == [a |-> a, snippet |-> snippet]

Anchor(href, text) == [href |-> href, text |-> text]

\* the dict appended to structured for a candidate that has the anchor
Structured(result) ==
    LET title_tag == Get(result.a)
    IN  [title |-> Strip(title_tag.text),
         href  |-> IF IsNone(title_tag.href) THEN << >> ELSE Get(title_tag.href),
         body  |-> IF IsNone(result.snippet) THEN << >>
                   ELSE Strip(Get(result.snippet))]

\* a plausible slip: the cap is compared with > instead of >=
RECURSIVE ParseLoop_OffByOne(_, _, _)
ParseLoop_OffByOne(candidates, structured, max_results) ==
    IF candidates = << >> THEN structured
    ELSE IF IsNone(Head(candidates).a)
         THEN ParseLoop_OffByOne(Tail(candidates), structured, max_results)
         ELSE LET grown == Append(structured, Structured(Head(candidates)))
              IN  IF Len(grown) > max_results THEN grown
                  ELSE ParseLoop_OffByOne(Tail(candidates), grown, max_results)

\* the for loop over soup.select("div.result"), with its continue and break
RECURSIVE ParseLoop(_, _, _)
ParseLoop(candidates, structured, max_results) ==
    IF candidates = << >> THEN structured
    ELSE IF IsNone(Head(candidates).a)
         THEN ParseLoop(Tail(candidates), structured, max_results)
         ELSE LET grown == Append(structured, Structured(Head(candidates)))
              IN  IF Len(grown) >= max_results THEN grown
                  ELSE ParseLoop(Tail(candidates), grown, max_results)

\* (search_results, structured): a SearchResult carries the fields of its dict
ParseResults(page, max_results) ==
    LET structured == ParseLoop(page, << >>, max_results)
    IN  [results |-> structured, raw |-> structured]

----------------------------------------------------------------------------
(* fetch_url_tool: the extraction *)

\* headings[:5]
HeadingLimit == 5

\* preview_text[:500]
PreviewLimit == 500

\* fetch_url_tool._first_text
RECURSIVE FirstText(_, _)
FirstText(doc, elements) ==
    IF elements = << >> THEN None
    ELSE LET node == SelectOne(doc, Head(elements))
         IN  IF ~IsNone(node) /\ GetTextStrip(Get(node)) # << >>
             THEN Some(GetTextStrip(Get(node)))
             ELSE FirstText(doc, Tail(elements))

NonEmptyTexts(els) ==
    LET kept == SelectSeq(els, LAMBDA el : GetTextStrip(el) # << >>)
    IN  [i \in 1..Len(kept) |-> GetTextStrip(kept[i])]

\* a plausible slip: the slice keeps one character too many
PreviewOf_OneMore(doc) ==
    LET preview_text == JoinSpace(NonEmptyTexts(FindAll(doc, {"p"})))
    IN  IF preview_text # << >> THEN Prefix(preview_text, PreviewLimit + 1)
        ELSE preview_text

\* paragraph_chunks, preview_text
PreviewOf(doc) ==
    LET preview_text == JoinSpace(NonEmptyTexts(FindAll(doc, {"p"})))
    IN  IF preview_text # << >> THEN Prefix(preview_text, PreviewLimit)
        ELSE preview_text

\* headings
HeadingsOf(doc) == Prefix(NonEmptyTexts(FindAll(doc, {"h1", "h2"})), HeadingLimit)

\* `x or None`
OrNone(x) == IF x = << >> THEN None ELSE Some(x)

\* the UrlContent fetch_url_tool builds from a successful response
Extract(resp) ==
    [url          |-> resp.final_url,
     status_code  |-> resp.status_code,
     content_type |-> resp.content_type,
     title        |-> FirstText(resp.doc, << "title" >>),
     description  |-> FirstText(resp.doc, << "meta[name=description]",
                                            "meta[property=og:description]" >>),
     headings     |-> OrNone(HeadingsOf(resp.doc)),
     preview      |-> OrNone(PreviewOf(resp.doc))]

----------------------------------------------------------------------------
(* The outbound call *)

\* What the remote end does when it is called.  kind: "transport" (an
\* httpx.TransportError other than a timeout), "timeout", or "response" (a
\* response came back, with status_code, the final URL after redirects, the
\* content-type header, and the parsed body: page for the search endpoint,
\* doc for a fetched page).
Up(kind, status_code, final_url, content_type, page, doc) ==
    [kind |-> kind, status_code |-> status_code, final_url |-> final_url,
     content_type |-> content_type, page |-> page, doc |-> doc]

\* Response.raise_for_status() passes
IsSuccess(status_code) == status_code \in 200..299

\* the try block raises httpx.HTTPError
HttpFails(up) == up.kind # "response" \/ ~IsSuccess(up.status_code)

----------------------------------------------------------------------------
(* run_agent: the values it builds *)

SEARCH == "duckduckgo_search"

FETCH == "fetch_url"

NewHistory(message) ==
    [user_message |-> message, tool_calls |-> << >>, tool_results |-> << >>,
     final_response |-> None]

ChatResponse(reply, used_tool, tool, results, url_content) ==
    [reply |-> reply, used_tool |-> used_tool, tool |-> tool,
     results |-> results, url_content |-> url_content]

\* a plausible slip: max_results is logged as the default, not as requested
SearchToolCall_DefaultCap(p) ==
    [tool |-> SEARCH,
     parameters |-> [keywords |-> p.message, max_results |-> 3,
                     region |-> p.region, safesearch |-> p.safesearch]]

SearchToolCall(p) ==
    [tool |-> SEARCH,
     parameters |-> [keywords |-> p.message, max_results |-> p.max_results,
                     region |-> p.region, safesearch |-> p.safesearch]]

FetchToolCall(p) ==
    [tool |-> FETCH, parameters |-> [url |-> Get(p.url)]]

\* reply_prefix + " for query: " + message
SearchReply(results, message) ==
    LET reply_prefix ==
            IF results # << >>
            THEN << SEARCH, " ", "found", " ", ToString(Len(results)), " ",
                    "result(s)" >>
            ELSE << SEARCH, " ", "returned", " ", "no", " ", "results" >>
    IN  reply_prefix \o << " ", "for", " ", "query:", " " >> \o message

\* a plausible slip: results is passed as it is, without `or None`
SearchResponse_KeepEmpty(results, message) ==
    ChatResponse(SearchReply(results, message), TRUE, Some(SEARCH),
                 Some(results), None)

\* the ChatResponse of the search branch
SearchResponse(results, message) ==
    ChatResponse(SearchReply(results, message), TRUE, Some(SEARCH),
                 OrNone(results), None)

\* the ChatResponse of the fetch_url branch
FetchResponse(url_content) ==
    ChatResponse(<< "Fetched", " ", "and", " ", "parsed", " ", url_content.url >>,
                 TRUE, Some(FETCH), None, Some(url_content))

GuidanceReply ==
    << "No", " ", "tool", " ", "requested.", " ", "Provide", " ",
       "tool='duckduckgo_search'", " ", "for", " ", "web", " ", "search", " ",
       "or", " ", "tool='fetch_url'", " ", "with", " ", "a", " ", "'url'", " ",
       "to", " ", "pull", " ", "page", " ", "content." >>

\* the ChatResponse of the else branch
GuidanceResponse == ChatResponse(GuidanceReply, FALSE, None, None, None)

Token(chunk) == [type |-> "token", value |-> chunk]

Message(resp) == [type |-> "message", value |-> resp]

----------------------------------------------------------------------------
(* The request: run_agent step by step, then the endpoint *)

\* a request starts: nothing of the previous one is kept
Fresh(ep, p, up, ref) ==
    /\ pc' = "run_agent"
    /\ endpoint' = ep
    /\ payload' = p
    /\ upstream' = up
    /\ history' = None
    /\ tool_out' = None
    /\ response' = None
    /\ status' = 0
    /\ net_calls' = 0
    /\ http_body' = None
    /\ pending' = << >>
    /\ events' = << >>
    /\ chat_ref' = ref

\* history = {...}
EnterRunAgent ==
    /\ pc = "run_agent"
    /\ history' = Some(NewHistory(payload.message))
    /\ pc' = "dispatch"
    /\ UNCHANGED << endpoint, payload, upstream, tool_out, response, status,
                    net_calls, http_body, pending, events, chat_ref >>

AppendCall(call) ==
    history' = Some([Get(history) EXCEPT !.tool_calls = Append(@, call)])

AppendResult(result) ==
    history' = Some([Get(history) EXCEPT !.tool_results = Append(@, result)])

\* if payload.tool == "duckduckgo_search": history["tool_calls"].append(tool_call)
SearchAppendCall ==
    /\ pc = "dispatch"
    /\ payload.tool = Some(SEARCH)
    /\ AppendCall(SearchToolCall(payload))
    /\ pc' = "search_call"
    /\ UNCHANGED << endpoint, payload, upstream, tool_out, response, status,
                    net_calls, http_body, pending, events, chat_ref >>

\* a plausible slip: the failed call is attempted a second time
SearchTool_Retry ==
    /\ pc = "search_call"
    /\ net_calls' = net_calls + 1
    /\ IF HttpFails(upstream)
       THEN IF net_calls = 0
            THEN UNCHANGED << status, pc, tool_out >>
            ELSE /\ status' = 502
                 /\ pc' = "failed"
                 /\ UNCHANGED tool_out
       ELSE /\ tool_out' = Some(ParseResults(upstream.page, payload.max_results))
            /\ pc' = "search_done"
            /\ UNCHANGED status
    /\ UNCHANGED << endpoint, payload, upstream, history, response, http_body,
                    pending, events, chat_ref >>

\* duckduckgo_search_tool(...): one client.post, then the parsing, or the 502
SearchTool ==
    /\ pc = "search_call"
    /\ net_calls' = net_calls + 1
    /\ IF HttpFails(upstream)
       THEN /\ status' = 502
            /\ pc' = "failed"
            /\ UNCHANGED tool_out
       ELSE /\ tool_out' = Some(ParseResults(upstream.page, payload.max_results))
            /\ pc' = "search_done"
            /\ UNCHANGED status
    /\ UNCHANGED << endpoint, payload, upstream, history, response, http_body,
                    pending, events, chat_ref >>

\* history["tool_results"].append({"tool": "duckduckgo_search", "data": raw_results})
SearchAppendResult ==
    /\ pc = "search_done"
    /\ AppendResult([tool |-> SEARCH, data |-> Get(tool_out).raw])
    /\ pc' = "search_respond"
    /\ UNCHANGED << endpoint, payload, upstream, tool_out, response, status,
                    net_calls, http_body, pending, events, chat_ref >>

\* response = ChatResponse(...) of the search branch
SearchBuildResponse ==
    /\ pc = "search_respond"
    /\ response' = Some(SearchResponse(Get(tool_out).results, payload.message))
    /\ pc' = "finalize"
    /\ UNCHANGED << endpoint, payload, upstream, history, tool_out, status,
                    net_calls, http_body, pending, events, chat_ref >>

\* elif payload.tool == "fetch_url": if not payload.url: raise HTTPException(422)
FetchReject ==
    /\ pc = "dispatch"
    /\ payload.tool = Some(FETCH)
    /\ IsNone(payload.url)
    /\ status' = 422
    /\ pc' = "failed"
    /\ UNCHANGED << endpoint, payload, upstream, history, tool_out, response,
                    net_calls, http_body, pending, events, chat_ref >>

\* a plausible slip: the call is recorded before the url is checked
FetchAppendCall_Unchecked ==
    /\ pc = "dispatch"
    /\ payload.tool = Some(FETCH)
    /\ AppendCall([tool |-> FETCH, parameters |-> [url |-> payload.url]])
    /\ pc' = IF IsNone(payload.url) THEN "failed" ELSE "fetch_call"
    /\ status' = IF IsNone(payload.url) THEN 422 ELSE status
    /\ UNCHANGED << endpoint, payload, upstream, tool_out, response,
                    net_calls, http_body, pending, events, chat_ref >>

\* history["tool_calls"].append(tool_call) of the fetch_url branch
FetchAppendCall ==
    /\ pc = "dispatch"
    /\ payload.tool = Some(FETCH)
    /\ ~IsNone(payload.url)
    /\ AppendCall(FetchToolCall(payload))
    /\ pc' = "fetch_call"
    /\ UNCHANGED << endpoint, payload, upstream, tool_out, response, status,
                    net_calls, http_body, pending, events, chat_ref >>

\* fetch_url_tool(str(payload.url)): one client.get, then the extraction, or the 502
FetchTool ==
    /\ pc = "fetch_call"
    /\ net_calls' = net_calls + 1
    /\ IF HttpFails(upstream)
       THEN /\ status' = 502
            /\ pc' = "failed"
            /\ UNCHANGED tool_out
       ELSE /\ tool_out' = Some(Extract(upstream))
            /\ pc' = "fetch_done"
            /\ UNCHANGED status
    /\ UNCHANGED << endpoint, payload, upstream, history, response, http_body,
                    pending, events, chat_ref >>

\* history["tool_results"].append({"tool": "fetch_url", "data": url_content.model_dump()})
FetchAppendResult ==
    /\ pc = "fetch_done"
    /\ AppendResult([tool |-> FETCH, data |-> Get(tool_out)])
    /\ pc' = "fetch_respond"
    /\ UNCHANGED << endpoint, payload, upstream, tool_out, response, status,
                    net_calls, http_body, pending, events, chat_ref >>

\* response = ChatResponse(...) of the fetch_url branch
FetchBuildResponse ==
    /\ pc = "fetch_respond"
    /\ response' = Some(FetchResponse(Get(tool_out)))
    /\ pc' = "finalize"
    /\ UNCHANGED << endpoint, payload, upstream, history, tool_out, status,
                    net_calls, http_body, pending, events, chat_ref >>

\* a plausible slip: a request without a tool falls through to the search
NoToolBuildResponse_Search ==
    /\ pc = "dispatch"
    /\ IsNone(payload.tool)
    /\ AppendCall(SearchToolCall(payload))
    /\ pc' = "search_call"
    /\ UNCHANGED << endpoint, payload, upstream, tool_out, response, status,
                    net_calls, http_body, pending, events, chat_ref >>

\* else: response = ChatResponse(reply=..., used_tool=False)
NoToolBuildResponse ==
    /\ pc = "dispatch"
    /\ IsNone(payload.tool)
    /\ response' = Some(GuidanceResponse)
    /\ pc' = "finalize"
    /\ UNCHANGED << endpoint, payload, upstream, history, tool_out, status,
                    net_calls, http_body, pending, events, chat_ref >>

\* history["final_response"] = response.model_dump(); return response, history
RecordFinal ==
    /\ pc = "finalize"
    /\ history' = Some([Get(history) EXCEPT !.final_response = response])
    /\ pc' = "return"
    /\ UNCHANGED << endpoint, payload, upstream, tool_out, response, status,
                    net_calls, http_body, pending, events, chat_ref >>

\* chat_agent: return response
ChatReturn ==
    /\ pc = "return"
    /\ endpoint = "chat"
    /\ http_body' = response
    /\ status' = 200
    /\ pc' = "done"
    /\ UNCHANGED << endpoint, payload, upstream, history, tool_out, response,
                    net_calls, pending, events, chat_ref >>

\* chat_agent_stream: return StreamingResponse(event_generator());
\* event_generator: for chunk in chunk_reply(response.reply)
StreamReturn ==
    /\ pc = "return"
    /\ endpoint = "stream"
    /\ pending' = chunk_reply(Get(response).reply)
    /\ status' = 200
    /\ pc' = "streaming"
    /\ UNCHANGED << endpoint, payload, upstream, history, tool_out, response,
                    net_calls, http_body, events, chat_ref >>

\* yield format_sse({"type": "token", "value": chunk})
EmitToken ==
    /\ pc = "streaming"
    /\ pending # << >>
    /\ events' = Append(events, Token(Head(pending)))
    /\ pending' = Tail(pending)
    /\ UNCHANGED << pc, endpoint, payload, upstream, history, tool_out,
                    response, status, net_calls, http_body, chat_ref >>

\* yield format_sse({"type": "message", "value": response.model_dump()})
EmitMessage ==
    /\ pc = "streaming"
    /\ pending = << >>
    /\ events' = Append(events, Message(Get(response)))
    /\ pc' = "done"
    /\ UNCHANGED << endpoint, payload, upstream, history, tool_out, response,
                    status, net_calls, http_body, pending, chat_ref >>

----------------------------------------------------------------------------
(* Inputs *)

\* ChatRequest.max_results: ge, default, le
MinResults == 1

DefaultResults == 3

MaxResults == 10

\* longest search response of Spec, in div.result elements
MaxPage == 2

\* longest search response of SpecSearch, in div.result elements
MaxCandidates == 4

\* longest reply text of SpecChunk, in characters
MaxTextLen == 13

\* most title/meta elements of a document of SpecExtract
MaxMetaEls == 3

\* most h1/h2 elements of a document of SpecExtract
MaxHeadingEls == 6

\* most p elements of a document of SpecExtract
MaxParaEls == 2

SeqsUpTo(S, n) == UNION { [1..k -> S] : k \in 0..n }

Rep(c, n) == [i \in 1..n |-> c]

\* message: str with min_length=1; whitespace is not trimmed by the validation
Messages ==
    { << "q" >>, << "a", " ", " ", "b" >>, << " " >>, << "a", "\n" >> }

Tools == { None, Some(SEARCH), Some(FETCH) }

Urls == { None, Some("http://a/") }

Payloads ==
    [message : Messages, tool : Tools, url : Urls,
     max_results : MinResults..MaxResults,
     region : {"wt-wt", "us-en"},
     safesearch : {"off", "moderate", "strict"}]

CandNoAnchor == Candidate(None, Some(<< "S0" >>))

CandFull ==
    Candidate(Some(Anchor(Some(<< "//r1" >>), << " ", "T1", " ", "x", "\n" >>)),
              Some(<< "S1", " " >>))

CandBare == Candidate(Some(Anchor(None, << "T2" >>)), None)

Candidates == { CandNoAnchor, CandFull, CandBare }

\* the outbound call fails: transport error, timeout, a status that is not 2xx
Failures ==
    { Up("transport", 0, "", None, << >>, << >>),
      Up("timeout", 0, "", None, << >>, << >>),
      Up("response", 302, "http://a/", None, << >>, << >>),
      Up("response", 404, "http://a/", None, << >>, << >>),
      Up("response", 500, "http://a/", None, << >>, << >>) }

SearchOk(page) ==
    Up("response", 200, "https://html.duckduckgo.com/html/",
       Some("text/html"), page, << >>)

FetchOk(final_url, content_type, doc) ==
    Up("response", 200, final_url, content_type, << >>, doc)

Title(text) == El("title", "", "", None, text)

\* a meta element is a void element: the parser gives it no text
MetaName(content) == El("meta", "description", "", content, << >>)

MetaOg(content) == El("meta", "", "og:description", content, << >>)

H1(text) == El("h1", "", "", None, text)

H2(text) == El("h2", "", "", None, text)

P(text) == El("p", "", "", None, text)

MainDocs ==
    { << >>,
      << Title(<< "T" >>), MetaName(Some(<< "D" >>)), H1(<< "A" >>),
         P(<< "x", " ", "y" >>) >>,
      << H2(<< " " >>), P(<< >>) >> }

SearchUpstreams == Failures \cup { SearchOk(page) : page \in SeqsUpTo(Candidates, MaxPage) }

FetchUpstreams ==
    Failures \cup
    { FetchOk(u, Some("text/html"), doc) : u \in {"http://a/", "http://b/"},
                                           doc \in MainDocs }
    \cup { FetchOk("http://a/", None, << >>) }

\* the remote end a request meets; a request without a tool has one too
UpstreamsFor(p) ==
    IF p.tool = Some(SEARCH) THEN SearchUpstreams
    ELSE IF p.tool = Some(FETCH) THEN FetchUpstreams
    ELSE { SearchOk(<< CandFull >>), Up("timeout", 0, "", None, << >>, << >>) }

----------------------------------------------------------------------------
(* Spec: requests to /chat and /chat/stream, one after the other *)

Idle ==
    /\ pc = "idle"
    /\ endpoint = "chat"
    /\ payload = None
    /\ upstream = None
    /\ history = None
    /\ tool_out = None
    /\ response = None
    /\ status = 0
    /\ net_calls = 0
    /\ http_body = None
    /\ pending = << >>
    /\ events = << >>
    /\ chat_ref = None

Init == Idle

\* the framework hands a validated ChatRequest to one of the two endpoints
Request ==
    /\ pc = "idle"
    /\ \E ep \in {"chat", "stream"}, p \in Payloads :
          \E up \in UpstreamsFor(p) : Fresh(ep, p, up, None)

\* the request /chat has answered is sent to /chat/stream, the remote end
\* answering as before; chat_ref keeps the /chat answer
Replay ==
    /\ pc = "done"
    /\ endpoint = "chat"
    /\ Fresh("stream", payload, upstream, http_body)

\* the request/response cycle ends: nothing outlives it
Close ==
    /\ pc \in {"done", "failed"}
    /\ pc' = "idle"
    /\ endpoint' = "chat"
    /\ payload' = None
    /\ upstream' = None
    /\ history' = None
    /\ tool_out' = None
    /\ response' = None
    /\ status' = 0
    /\ net_calls' = 0
    /\ http_body' = None
    /\ pending' = << >>
    /\ events' = << >>
    /\ chat_ref' = None

RunAgent ==
    \/ EnterRunAgent
    \/ SearchAppendCall
    \/ SearchTool
    \/ SearchAppendResult
    \/ SearchBuildResponse
    \/ FetchReject
    \/ FetchAppendCall
    \/ FetchTool
    \/ FetchAppendResult
    \/ FetchBuildResponse
    \/ NoToolBuildResponse
    \/ RecordFinal

Next ==
    \/ Request
    \/ Replay
    \/ RunAgent
    \/ ChatReturn
    \/ StreamReturn
    \/ EmitToken
    \/ EmitMessage
    \/ Close

Spec == Init /\ [][Next]_vars

----------------------------------------------------------------------------
(* Claims checked under Spec *)

InRequest == pc # "idle"

\* the request asks for a tool and passes run_agent's own validation
CallsTool == ~IsNone(payload.tool) /\ ~(payload.tool = Some(FETCH) /\ IsNone(payload.url))

Populated(o) == ~IsNone(o)

TokenValues == [i \in 1..(Len(events) - 1) |-> events[i].value]

\* C1: a fetch_url request without url ends with status 422 while no outbound
\* call has been made, nothing has been appended to tool_calls (or
\* tool_results), and no ChatResponse, body or stream event exists; 422 comes
\* from nothing else.
C1_FetchWithoutUrlRejected ==
    InRequest =>
      /\ (payload.tool = Some(FETCH) /\ IsNone(payload.url)) =>
            /\ net_calls = 0
            /\ IsNone(response) /\ IsNone(http_body) /\ events = << >>
            /\ pc \in {"run_agent", "dispatch", "failed"}
            /\ pc = "failed" => status = 422
            /\ ~IsNone(history) =>
                  /\ Get(history).tool_calls = << >>
                  /\ Get(history).tool_results = << >>
      /\ status = 422 =>
            /\ payload.tool = Some(FETCH) /\ IsNone(payload.url)
            /\ pc = "failed"

C1_Witness ==
    /\ pc = "failed"
    /\ status = 422
    /\ payload.tool = Some(FETCH)
    /\ IsNone(payload.url)
    /\ Get(history).tool_calls = << >>

\* C2 as stated: every ChatResponse has exactly one of results, url_content
\* populated, and then used_tool is true and tool names the matching tool.
C2_ExactlyOnePopulated ==
    Populated(response) =>
      LET r == Get(response)
      IN  /\ Populated(r.results) # Populated(r.url_content)
          /\ r.used_tool
          /\ Populated(r.results) => r.tool = Some(SEARCH)
          /\ Populated(r.url_content) => r.tool = Some(FETCH)

\* C2 amended: every ChatResponse has at most one of results, url_content
\* populated, and only when used_tool is true and tool names the matching
\* tool; url_content is populated in every fetch_url response, results is
\* populated (and then not empty) in a search response exactly when the
\* search kept at least one result, and the response without a tool has
\* neither.
C2_AtMostOnePopulated ==
    Populated(response) =>
      LET r == Get(response)
      IN  /\ ~(Populated(r.results) /\ Populated(r.url_content))
          /\ Populated(r.results) =>
                /\ r.used_tool /\ r.tool = Some(SEARCH)
                /\ Get(r.results) # << >>
          /\ Populated(r.url_content) => r.used_tool /\ r.tool = Some(FETCH)
          /\ r.tool = Some(FETCH) => Populated(r.url_content)
          /\ r.tool = Some(SEARCH) =>
                (Populated(r.results) <=> Get(tool_out).raw # << >>)
          /\ r.used_tool <=> Populated(r.tool)

C2_Witness ==
    /\ Populated(response)
    /\ Get(response).tool = Some(SEARCH)
    /\ IsNone(Get(response).results)
    /\ pc = "done"

\* C3 as stated: every request run_agent completes has exactly one entry in
\* tool_calls and one in tool_results, and the final response recorded.
C3_EveryCompletionLogsOneCall ==
    pc \in {"return", "streaming", "done"} =>
      /\ Len(Get(history).tool_calls) = 1
      /\ Len(Get(history).tool_results) = 1
      /\ Get(history).final_response = response

\* C3 amended: for a search or a fetch with url, once the ChatResponse is
\* built the trail holds exactly one tool_calls entry, with the parameters of
\* the request, and exactly one tool_results entry, with the tool's output;
\* for a request without a tool both lists stay empty; tool_results never
\* holds more than tool_calls; the final response is recorded after it is
\* built and before run_agent returns.
C3_AuditTrail ==
    ~IsNone(history) =>
      LET h == Get(history)
      IN  /\ Len(h.tool_results) <= Len(h.tool_calls)
          /\ Len(h.tool_calls) <= 1
          /\ h.user_message = payload.message
          /\ (Populated(response) /\ payload.tool = Some(SEARCH)) =>
                /\ Len(h.tool_calls) = 1 /\ Len(h.tool_results) = 1
                /\ h.tool_calls[1].tool = SEARCH
                /\ h.tool_calls[1].parameters.keywords = payload.message
                /\ h.tool_calls[1].parameters.max_results = payload.max_results
                /\ h.tool_calls[1].parameters.region = payload.region
                /\ h.tool_calls[1].parameters.safesearch = payload.safesearch
                /\ h.tool_results[1].tool = SEARCH
                /\ h.tool_results[1].data = Get(tool_out).raw
          /\ (Populated(response) /\ payload.tool = Some(FETCH)) =>
                /\ Len(h.tool_calls) = 1 /\ Len(h.tool_results) = 1
                /\ h.tool_calls[1].tool = FETCH
                /\ h.tool_calls[1].parameters.url = Get(payload.url)
                /\ h.tool_results[1].tool = FETCH
                /\ h.tool_results[1].data = Get(Get(response).url_content)
          /\ IsNone(payload.tool) =>
                h.tool_calls = << >> /\ h.tool_results = << >>
          /\ pc \in {"return", "streaming", "done"} =>
                Populated(response) /\ h.final_response = response
          /\ pc \notin {"return", "streaming", "done"} =>
                IsNone(h.final_response)

C3_Witness ==
    /\ pc = "done"
    /\ Get(response).used_tool
    /\ Len(Get(history).tool_calls) = 1
    /\ Len(Get(history).tool_results) = 1
    /\ Get(history).final_response = response

\* C9: when the outbound call of a tool fails, the request ends with status
\* 502 after exactly one outbound call, and there is no ChatResponse, no tool
\* output, no body and no stream event; a request never makes a second call;
\* 502 comes from nothing else.
C9_UpstreamFailure ==
    InRequest =>
      /\ net_calls <= 1
      /\ (CallsTool /\ HttpFails(upstream)) =>
            /\ IsNone(response) /\ IsNone(tool_out)
            /\ IsNone(http_body) /\ events = << >> /\ pending = << >>
            /\ pc \in {"run_agent", "dispatch", "search_call", "fetch_call",
                       "failed"}
            /\ pc = "failed" <=> net_calls = 1
            /\ pc = "failed" => status = 502
      /\ status = 502 => CallsTool /\ HttpFails(upstream) /\ pc = "failed"

C9_Witness ==
    /\ pc = "failed"
    /\ status = 502
    /\ net_calls = 1
    /\ endpoint = "stream"
    /\ payload.tool = Some(FETCH)

\* C10: a request without a tool makes no outbound call, never fails, and its
\* ChatResponse is the guidance text with used_tool false and tool, results
\* and url_content absent, whatever the other fields of the request are.
C10_NoTool ==
    (InRequest /\ IsNone(payload.tool)) =>
      /\ net_calls = 0
      /\ pc # "failed" /\ status \in {0, 200}
      /\ pc \in {"finalize", "return", "streaming", "done"} => Populated(response)
      /\ Populated(response) =>
            /\ Get(response).reply = GuidanceReply
            /\ ~Get(response).used_tool
            /\ IsNone(Get(response).tool)
            /\ IsNone(Get(response).results)
            /\ IsNone(Get(response).url_content)

C10_Witness ==
    /\ pc = "done"
    /\ IsNone(payload.tool)
    /\ Populated(payload.url)
    /\ payload.max_results = MaxResults
    /\ payload.safesearch = "strict"
    /\ status = 200
    /\ net_calls = 0

\* every run of whitespace becomes one space, after leading and trailing
\* whitespace is removed
RECURSIVE Squeeze(_)
Squeeze(text) ==
    IF text = << >> THEN << >>
    ELSE IF IsSpace(Head(text)) THEN << " " >> \o Squeeze(LStrip(text))
    ELSE << Head(text) >> \o Squeeze(Tail(text))

Normalize(text) == Squeeze(Strip(text))

StreamReplayed == pc = "done" /\ endpoint = "stream" /\ Populated(chat_ref)

----------------------------------------------------------------------------
(* SpecSearch: one search request against every search response *)

NoRequestYet ==
    /\ history = None
    /\ tool_out = None
    /\ response = None
    /\ status = 0
    /\ net_calls = 0
    /\ http_body = None
    /\ pending = << >>
    /\ events = << >>
    /\ chat_ref = None

InitSearch ==
    /\ pc = "run_agent"
    /\ endpoint = "chat"
    /\ payload \in [message : {<< "q" >>}, tool : {Some(SEARCH)}, url : {None},
                    max_results : MinResults..MaxResults,
                    region : {"wt-wt"}, safesearch : {"moderate"}]
    /\ upstream \in { SearchOk(page) : page \in SeqsUpTo(Candidates, MaxCandidates) }
    /\ NoRequestYet

NextSearch ==
    \/ EnterRunAgent
    \/ SearchAppendCall
    \/ SearchTool
    \/ SearchAppendResult
    \/ SearchBuildResponse
    \/ RecordFinal
    \/ ChatReturn

SpecSearch == InitSearch /\ [][NextSearch]_vars

HasAnchor(candidate) == ~IsNone(candidate.a)

ValidCandidates == SelectSeq(upstream.page, HasAnchor)

\* C4: the tool returns min(max_results, number of div.result candidates that
\* have the title anchor) results, never more than max_results; they are the
\* first such candidates in document order, candidates without the anchor
\* being passed over; the ChatResponse carries the same list.
C4_ResultCount ==
    Populated(tool_out) =>
      LET results == Get(tool_out).results
          valid == ValidCandidates
      IN  /\ Len(results) <= payload.max_results
          /\ Len(results) = Min(payload.max_results, Len(valid))
          /\ \A i \in 1..Len(results) :
                /\ results[i].title = Strip(Get(valid[i].a).text)
                /\ results[i].href =
                      (IF IsNone(Get(valid[i].a).href) THEN << >>
                       ELSE Get(Get(valid[i].a).href))
          /\ (Populated(response) /\ Populated(Get(response).results)) =>
                Get(Get(response).results) = results

C4_Witness ==
    /\ pc = "done"
    /\ Len(ValidCandidates) > payload.max_results
    /\ payload.max_results >= 2
    /\ ~HasAnchor(upstream.page[1])
    /\ Len(Get(Get(response).results)) = payload.max_results
    /\ Get(Get(response).results)[1] # Get(Get(response).results)[2]

----------------------------------------------------------------------------
(* SpecExtract: one fetch_url request against every document *)

TitleMetaEls ==
    { Title(<< "T" >>), Title(<< " " >>), MetaName(Some(<< "D" >>)),
      MetaName(Some(<< >>)), MetaOg(Some(<< "OG" >>)) }

HeadingEls == { H1(<< "A" >>), H2(<< " ", "B", "\n" >>), H2(<< "\n" >>) }

ParaEls ==
    { P(<< >>), P(<< "x" >>), P(Rep("y", 300)), P(Rep("z", 499)),
      P(<< " " >> \o Rep("w", 600)) }

\* a title, both description metas, six headings, three paragraphs
FixtureDoc ==
    << Title(<< "T" >>), MetaOg(Some(<< "OG" >>)), MetaName(Some(<< "D" >>)),
       H1(<< "A" >>), P(Rep("y", 300)), H2(<< "B" >>), H2(<< "C" >>),
       P(<< "x" >>), H1(<< "E" >>), H2(<< "F" >>), P(Rep("z", 499)),
       H2(<< "G" >>) >>

ExtractDocs ==
    SeqsUpTo(TitleMetaEls, MaxMetaEls) \cup SeqsUpTo(HeadingEls, MaxHeadingEls)
    \cup SeqsUpTo(ParaEls, MaxParaEls) \cup { FixtureDoc }

InitExtract ==
    /\ pc = "run_agent"
    /\ endpoint = "chat"
    /\ payload \in [message : {<< "q" >>}, tool : {Some(FETCH)},
                    url : {Some("http://a/")}, max_results : {DefaultResults},
                    region : {"wt-wt"}, safesearch : {"moderate"}]
    /\ upstream \in { FetchOk("http://a/", Some("text/html"), doc) :
                        doc \in ExtractDocs }
    /\ NoRequestYet

NextExtract ==
    \/ EnterRunAgent
    \/ FetchAppendCall
    \/ FetchTool
    \/ FetchAppendResult
    \/ FetchBuildResponse
    \/ RecordFinal
    \/ ChatReturn

SpecExtract == InitExtract /\ [][NextExtract]_vars

IsMetaName(el) == el.tag = "meta" /\ el.name = "description"

IsMetaOg(el) == el.tag = "meta" /\ el.property = "og:description"

\* the value of the first of the meta elements hits: its content attribute,
\* stripped (<< >> when there is no such element or attribute)
MetaValue(hits) ==
    IF hits = << >> \/ IsNone(hits[1].content) THEN << >>
    ELSE Strip(Get(hits[1].content))

\* C7: the extracted description is the value of meta[name=description] when
\* that is not empty, else the value of meta[property=og:description] when
\* that is not empty, else absent.
C7_DescriptionPriority ==
    Populated(tool_out) =>
      LET byName == MetaValue(SelectSeq(upstream.doc, IsMetaName))
          byOg == MetaValue(SelectSeq(upstream.doc, IsMetaOg))
      IN  Get(tool_out).description =
             (IF byName # << >> THEN Some(byName)
              ELSE IF byOg # << >> THEN Some(byOg)
              ELSE None)

IsHeading(el) == el.tag \in {"h1", "h2"} /\ Strip(el.text) # << >>

IsParagraph(el) == el.tag = "p" /\ Strip(el.text) # << >>

\* how many of the first k elements of doc are non-empty headings
HeadingsUpTo(doc, k) == Cardinality({ j \in 1..k : IsHeading(doc[j]) })

\* C8: preview, when present, has 1 to 500 characters, and is absent exactly
\* when no p element has non-empty text; headings, when present, has 1 to 5
\* entries, none empty, the i-th being the text of the i-th non-empty h1/h2
\* element of the document whatever its level, and is absent exactly when the
\* document has no non-empty h1/h2; the ChatResponse carries the same values.
C8_PreviewAndHeadings ==
    Populated(tool_out) =>
      LET uc == Get(tool_out)
          doc == upstream.doc
      IN  /\ Populated(uc.preview) =>
                /\ Len(Get(uc.preview)) <= PreviewLimit
                /\ Get(uc.preview) # << >>
          /\ IsNone(uc.preview) <=> ~\E j \in 1..Len(doc) : IsParagraph(doc[j])
          /\ Populated(uc.headings) =>
                /\ Len(Get(uc.headings)) <= HeadingLimit
                /\ Get(uc.headings) # << >>
                /\ Len(Get(uc.headings)) =
                      Min(HeadingLimit, HeadingsUpTo(doc, Len(doc)))
                /\ \A i \in 1..Len(Get(uc.headings)) :
                      /\ Get(uc.headings)[i] # << >>
                      /\ \E k \in 1..Len(doc) :
                            /\ IsHeading(doc[k])
                            /\ HeadingsUpTo(doc, k) = i
                            /\ Get(uc.headings)[i] = Strip(doc[k].text)
          /\ IsNone(uc.headings) <=> ~\E j \in 1..Len(doc) : IsHeading(doc[j])
          /\ Populated(response) => Get(response).url_content = Some(uc)

C8_Witness ==
    /\ pc = "done"
    /\ upstream.doc = FixtureDoc
    /\ Len(Get(Get(Get(response).url_content).preview)) = PreviewLimit
    /\ Get(Get(Get(response).url_content).headings) =
          << << "A" >>, << "B" >>, << "C" >>, << "E" >>, << "F" >> >>

----------------------------------------------------------------------------
(* SpecChunk: /chat/stream's event_generator on every reply text *)

Texts == SeqsUpTo({"a", " "}, MaxTextLen)

InitChunk ==
    /\ pc = "return"
    /\ endpoint = "stream"
    /\ payload = None
    /\ upstream = None
    /\ history = None
    /\ tool_out = None
    /\ response \in { Some(ChatResponse(text, FALSE, None, None, None)) :
                        text \in Texts }
    /\ status = 0
    /\ net_calls = 0
    /\ http_body = None
    /\ pending = << >>
    /\ events = << >>
    /\ chat_ref = None

NextChunk ==
    \/ StreamReturn
    \/ EmitToken
    \/ EmitMessage

SpecChunk == InitChunk /\ [][NextChunk]_vars

\* ceil(n / d)
CeilDiv(n, d) == (n + d - 1) \div d

\* the events are tokens, then one message carrying the response
TokensThenMessage ==
    /\ Len(events) >= 1
    /\ events[Len(events)] = Message(Get(response))
    /\ \A i \in 1..(Len(events) - 1) : events[i].type = "token"

\* token i carries words 6(i-1)+1 .. 6i of the reply, joined by single spaces
TokensAreGroupsOfWords ==
    LET words == Split(Get(response).reply)
    IN  /\ Len(events) - 1 = CeilDiv(Len(words), WordsPerChunk)
        /\ \A i \in 1..(Len(events) - 1) :
              events[i].value =
                 JoinSpace(SubSeq(words, WordsPerChunk * (i - 1) + 1,
                                  Min(WordsPerChunk * i, Len(words))))

C5_StreamSequenceWhenWords ==
    pc = "done" =>
      /\ TokensThenMessage
      /\ IF Get(response).reply = << >>
         THEN events = << Token(<< >>), Message(Get(response)) >>
         ELSE TokensAreGroupsOfWords
      /\ Len(events) = 1 <=>
            (Get(response).reply # << >> /\ Split(Get(response).reply) = << >>)

=============================================================================
